---- MODULE Spec2Model ----
(***************************************************************************)
(* Pattern type inference of hir_ty (crates/hir_ty/src/infer/pat.rs).      *)
(*                                                                         *)
(* InferenceContext::infer_pat is a recursive descent over a pattern tree. *)
(* The recursion is modelled by an explicit call stack: a frame is one     *)
(* activation of infer_pat, an action runs the activation on top of the    *)
(* stack from where it stands to its next call of infer_pat or to its      *)
(* return.  The collaborators that live outside pat.rs (unify, the type    *)
(* variable table, resolve_variant, infer_expr, ...) are modelled from     *)
(* their described contracts.                                              *)
(***************************************************************************)
EXTENDS Integers, Sequences, FiniteSets, TLC

(***************************************************************************)
(* Bounds of the model.                                                    *)
(***************************************************************************)
\* most sub-patterns of a tuple / tuple-struct pattern
MaxArgs == 3
\* most fields of a tuple variant, most elements of an expected tuple type
MaxFields == 3
\* most reference layers around an expected type
MaxRefs == 2

(***************************************************************************)
(* Option<T>: the empty sequence is None, <<x>> is Some(x).                *)
(***************************************************************************)
None == <<>>
Some(x) == <<x>>
IsSome(o) == Len(o) = 1
Unwrap(o) == o[1]

(***************************************************************************)
(* Ty.  Every type is a record of the same shape: k the constructor, m a   *)
(* mutability or an ADT name, n a number (variable index, tuple length),   *)
(* args the Substs.                                                        *)
(***************************************************************************)
Shared == "Shared"
Mut == "Mut"
Mutability == {Shared, Mut}

Ty(k, m, n, args) == [k |-> k, m |-> m, n |-> n, args |-> args]
Unknown == Ty("Unknown", "", 0, <<>>)
\* a type opaque to pattern inference (a scalar); i tells such types apart
Scalar(i) == Ty("Scalar", "", i, <<>>)
IntTy == Ty("Int", "", 0, <<>>)
StrTy == Ty("Str", "", 0, <<>>)
TyVar(i) == Ty("Var", "", i, <<>>)
\* a generic parameter inside a declared field type
Bound(i) == Ty("Bound", "", i, <<>>)
\* an associated type projection inside a declared field type
Assoc(i) == Ty("Assoc", "", i, <<>>)
Ref(mutability, ty) == Ty("Ref", mutability, 0, <<ty>>)
Tuple(tys) == Ty("Tuple", "", Len(tys), tys)
Adt(adt, substs) == Ty("Adt", adt, 0, substs)
Slice(ty) == Ty("Slice", "", 0, <<ty>>)
Array(ty) == Ty("Array", "", 0, <<ty>>)

\* Ty::as_reference: Some((inner, mutability)) for a reference type
as_reference(ty) == IF ty.k = "Ref" THEN Some(<<ty.args[1], ty.m>>) ELSE None
\* Ty::as_tuple: Some(substs) for a tuple type
as_tuple(ty) == IF ty.k = "Tuple" THEN Some(ty.args) ELSE None
\* Ty::as_adt: Some((adt, substs)) for an ADT instance
as_adt(ty) == IF ty.k = "Adt" THEN Some(<<ty.m, ty.args>>) ELSE None
\* Ty::substs: the generic substitution list of an ADT instance
substs_of(ty) == IF ty.k = "Adt" THEN ty.args ELSE <<>>

(***************************************************************************)
(* The type variable table: entry i is what variable i is bound to, or     *)
(* Unbound.  All of it is state of the inference session.                  *)
(***************************************************************************)
Unbound == Ty("Unbound", "", 0, <<>>)

RECURSIVE resolve_shallow(_, _)
resolve_shallow(tv, ty) ==
    IF ty.k = "Var" /\ tv[ty.n] # Unbound THEN resolve_shallow(tv, tv[ty.n]) ELSE ty

\* resolve_ty_as_possible: replace every bound variable, at any depth.  A
\* variable met again while its own value is being resolved (a recursive type)
\* resolves to its fallback, Unknown.
RECURSIVE resolve_ty_as_possible_inner(_, _, _)
resolve_ty_as_possible_inner(tv_stack, tv, ty) ==
    IF ty.k = "Var"
    THEN IF ty.n \in tv_stack THEN Unknown
         ELSE IF tv[ty.n] = Unbound THEN ty
         ELSE resolve_ty_as_possible_inner(tv_stack \cup {ty.n}, tv, tv[ty.n])
    ELSE [ty EXCEPT !.args = [i \in 1..Len(ty.args) |->
                                 resolve_ty_as_possible_inner(tv_stack, tv, ty.args[i])]]
resolve_ty_as_possible(tv, ty) == resolve_ty_as_possible_inner({}, tv, ty)

\* insert_type_vars_shallow: a top-level Unknown becomes a fresh variable
insert_type_vars_shallow(tv, ty) ==
    IF ty.k = "Unknown"
    THEN [ty |-> TyVar(Len(tv) + 1), tv |-> Append(tv, Unbound)]
    ELSE [ty |-> ty, tv |-> tv]

RECURSIVE unify_inner(_, _, _)
RECURSIVE unify_substs(_, _, _, _)
unify_inner(tv, ty1, ty2) ==
    LET a == resolve_shallow(tv, ty1)
        b == resolve_shallow(tv, ty2)
    IN  IF a = b THEN [ok |-> TRUE, tv |-> tv]
        ELSE IF a.k = "Unknown" \/ b.k = "Unknown" THEN [ok |-> TRUE, tv |-> tv]
        ELSE IF a.k = "Var" THEN [ok |-> TRUE, tv |-> [tv EXCEPT ![a.n] = b]]
        ELSE IF b.k = "Var" THEN [ok |-> TRUE, tv |-> [tv EXCEPT ![b.n] = a]]
        ELSE IF a.k = b.k /\ a.m = b.m /\ a.n = b.n /\ Len(a.args) = Len(b.args)
             THEN unify_substs(tv, a.args, b.args, 1)
        ELSE [ok |-> FALSE, tv |-> tv]
unify_substs(tv, as, bs, i) ==
    IF i > Len(as) THEN [ok |-> TRUE, tv |-> tv]
    ELSE LET r == unify_inner(tv, as[i], bs[i])
         IN  IF r.ok THEN unify_substs(r.tv, as, bs, i + 1) ELSE r

\* unify: the table is changed only when the two types could be made equal
unify(tv, ty1, ty2) ==
    LET r == unify_inner(tv, ty1, ty2)
    IN  IF r.ok THEN r ELSE [ok |-> FALSE, tv |-> tv]

\* Ty::subst: the generic parameters of a declared type replaced by substs
RECURSIVE subst(_, _)
subst(ty, substs) ==
    IF ty.k = "Bound"
    THEN IF ty.n <= Len(substs) THEN substs[ty.n] ELSE Unknown
    ELSE [ty EXCEPT !.args = [i \in 1..Len(ty.args) |-> subst(ty.args[i], substs)]]

\* normalize_associated_types_in: every associated type projection inside ty
\* is replaced by a fresh type variable (the projection becomes an obligation)
RECURSIVE normalize_associated_types_in(_, _)
RECURSIVE normalize_substs(_, _, _)
normalize_associated_types_in(tv, ty) ==
    IF ty.k = "Assoc"
    THEN [ty |-> TyVar(Len(tv) + 1), tv |-> Append(tv, Unbound)]
    ELSE LET r == normalize_substs(tv, ty.args, <<>>)
         IN  [ty |-> [ty EXCEPT !.args = r.args], tv |-> r.tv]
normalize_substs(tv, todo, done) ==
    IF todo = <<>> THEN [args |-> done, tv |-> tv]
    ELSE LET r == normalize_associated_types_in(tv, Head(todo))
         IN  normalize_substs(r.tv, Tail(todo), Append(done, r.ty))

(***************************************************************************)
(* BindingMode and BindingAnnotation.                                      *)
(***************************************************************************)
Move == [bm |-> "Move", m |-> ""]
RefMode(mutability) == [bm |-> "Ref", m |-> mutability]
BindingModes == {Move} \cup {RefMode(m) : m \in Mutability}

BindingAnnotations == {"Unannotated", "Mutable", "Ref", "RefMut"}
\* BindingMode::convert
convert(annotation) ==
    CASE annotation = "Unannotated" -> Move
      [] annotation = "Mutable" -> Move
      [] annotation = "Ref" -> RefMode(Shared)
      [] annotation = "RefMut" -> RefMode(Mut)

(***************************************************************************)
(* Expr: the expressions a pattern can hold, and infer_expr on them.       *)
(***************************************************************************)
IntLiteral == [kind |-> "Literal", lit |-> "Int"]
StringLiteral == [kind |-> "Literal", lit |-> "String"]
BlockExpr == [kind |-> "Block", lit |-> ""]

\* infer_expr: the expression's own type, unified with the expectation and
\* resolved as far as known
infer_expr(tv, expr, expected) ==
    LET own == CASE expr.lit = "Int" -> IntTy
                 [] expr.lit = "String" -> Ref(Shared, StrTy)
                 [] OTHER -> Scalar(0)
        u == unify(tv, own, expected)
    IN  [ty |-> resolve_ty_as_possible(u.tv, own), tv |-> u.tv]

(***************************************************************************)
(* Pat.  A pattern holds its sub-patterns; a PatId is the position of a    *)
(* pattern in the body: the sequence of child numbers leading to it from   *)
(* the top-level pattern, whose PatId is <<>>.                             *)
(***************************************************************************)
PatMissing == [kind |-> "Missing"]
PatWild == [kind |-> "Wild"]
PatTuple(args, ellipsis) == [kind |-> "Tuple", args |-> args, ellipsis |-> ellipsis]
PatOr(pats) == [kind |-> "Or", args |-> pats]
RecordFieldPat(name, pat) == [name |-> name, pat |-> pat]
PatRecord(path, fields) == [kind |-> "Record", path |-> path, fields |-> fields]
PatRange(start, end) == [kind |-> "Range", start |-> start, end |-> end]
PatSlice(prefix, slice, suffix) ==
    [kind |-> "Slice", prefix |-> prefix, slice |-> slice, suffix |-> suffix]
PatPath(path) == [kind |-> "Path", path |-> path]
PatLit(expr) == [kind |-> "Lit", expr |-> expr]
PatBind(mode, subpat) == [kind |-> "Bind", mode |-> mode, subpat |-> subpat]
PatTupleStruct(path, args, ellipsis) ==
    [kind |-> "TupleStruct", path |-> path, args |-> args, ellipsis |-> ellipsis]
PatRef(pat, mutability) == [kind |-> "Ref", pat |-> pat, mutability |-> mutability]
PatBox(inner) == [kind |-> "Box", inner |-> inner]
PatConstBlock(expr) == [kind |-> "ConstBlock", expr |-> expr]

\* the sub-patterns of a pattern, in the order of their child numbers
Children(p) ==
    CASE p.kind \in {"Tuple", "TupleStruct", "Or"} -> p.args
      [] p.kind = "Record" -> [i \in 1..Len(p.fields) |-> p.fields[i].pat]
      [] p.kind = "Slice" -> p.prefix \o p.slice \o p.suffix
      [] p.kind = "Bind" -> p.subpat
      [] p.kind = "Ref" -> <<p.pat>>
      [] p.kind = "Box" -> <<p.inner>>
      [] OTHER -> <<>>

\* body[pat]
RECURSIVE PatAt(_, _)
PatAt(root, pat) ==
    IF pat = <<>> THEN root ELSE PatAt(Children(root)[Head(pat)], Tail(pat))

\* every PatId reachable from the pattern
RECURSIVE PatIds(_)
PatIds(root) ==
    {<<>>} \cup UNION {{<<i>> \o q : q \in PatIds(Children(root)[i])} :
                       i \in 1..Len(Children(root))}

RECURSIVE is_non_ref_pat(_)
is_non_ref_pat(p) ==
    CASE p.kind \in {"Tuple", "TupleStruct", "Record", "Range", "Slice"} -> TRUE
      [] p.kind = "Or" -> \A i \in 1..Len(p.args) : is_non_ref_pat(p.args[i])
      [] p.kind = "Path" -> TRUE
      [] p.kind = "ConstBlock" -> TRUE
      [] p.kind = "Lit" -> ~(p.expr.kind = "Literal" /\ p.expr.lit = "String")
      [] OTHER -> FALSE

(***************************************************************************)
(* The symbol database: paths, variants and their fields.                  *)
(***************************************************************************)
\* Name::new_tuple_field(i), and the name of a named field
new_tuple_field(i) == [text |-> "", idx |-> i]
Name(text) == [text |-> text, idx |-> 0 - 1]

\* a path is a name; TS(n) names a tuple struct of n fields
PathTo(name, n) == [name |-> name, n |-> n]
TS(n) == PathTo("TS", n)
Rec == PathTo("Rec", 0)
Gen == PathTo("Gen", 0)
Nope == PathTo("Nope", 0)

\* the fields a variant declares, in the order of their local ids 0, 1, ...:
\*   struct TS<n>(Scalar(0), ..., Scalar(n - 1));
\*   struct Rec { a: Scalar(10), b: &Scalar(11) }
\*   struct Gen<T>(T, <T as Trait>::Assoc);
Fields(def) ==
    CASE def.name = "TS" ->
             [i \in 1..def.n |-> [name |-> new_tuple_field(i - 1), ty |-> Scalar(i - 1)]]
      [] def.name = "Rec" ->
             << [name |-> Name("a"), ty |-> Scalar(10)],
                [name |-> Name("b"), ty |-> Ref(Shared, Scalar(11))] >>
      [] def.name = "Gen" ->
             << [name |-> new_tuple_field(0), ty |-> Bound(1)],
                [name |-> new_tuple_field(1), ty |-> Assoc(1)] >>

\* db.field_types(def)[local_id]
field_types(def, local_id) == Fields(def)[local_id + 1].ty
\* variant_data(db, def).field(name): the local id of the field of that name
field(def, name) ==
    LET hits == {i \in 1..Len(Fields(def)) : Fields(def)[i].name = name}
    IN  IF hits = {} THEN None ELSE Some((CHOOSE i \in hits : TRUE) - 1)

\* resolve_variant: the instance type and the variant a path names; a path that
\* does not resolve gives (Unknown, None).  The parameters of a generic type
\* that the path leaves out become fresh type variables.
resolve_variant(tv, path) ==
    IF path = None \/ Unwrap(path).name = "Nope"
    THEN [ty |-> Unknown, def |-> None, tv |-> tv]
    ELSE LET def == Unwrap(path)
         IN  IF def.name = "Gen"
             THEN [ty |-> Adt("Gen", <<TyVar(Len(tv) + 1)>>), def |-> Some(def),
                   tv |-> Append(tv, Unbound)]
             ELSE [ty |-> Ty("Adt", def.name, def.n, <<>>), def |-> Some(def), tv |-> tv]

(***************************************************************************)
(* The state.                                                              *)
(***************************************************************************)
VARIABLES
    body,                          \* the top-level pattern (the body's pattern arena)
    overflow_checks,               \* the build panics on integer overflow (else it wraps)
    boxed_box,                     \* what resolve_boxed_box() gives in this crate
    phase,                         \* "idle", "running", "done" or "panicked"
    stack,                         \* the activations of infer_pat, innermost first
    type_vars,                     \* the type variable table
    type_of_pat,                   \* result.type_of_pat: PatId -> Ty
    write_log,                     \* the PatIds write_pat_ty was called with, in order
    record_pat_field_resolutions,  \* result.record_pat_field_resolutions: PatId -> FieldId
    variant_resolutions,           \* result.variant_resolutions: PatId -> variant
    calls,                         \* PatId -> the arguments infer_pat was called with
    returns                        \* PatId -> what infer_pat computed and returned

env == <<body, overflow_checks, boxed_box>>
vars == <<body, overflow_checks, boxed_box, phase, stack, type_vars, type_of_pat,
          write_log, record_pat_field_resolutions, variant_resolutions, calls, returns>>

(***************************************************************************)
(* infer_pat, lines 99-119: the default binding mode.                      *)
(***************************************************************************)
\* one reference layer peeled off the expected type (mutant: a peeled mutable
\* layer upgrades a shared default mode)
peel_mode_shared_upgraded(default_bm, mutability) == RefMode(mutability)

peel_mode(default_bm, mutability) ==
    CASE default_bm = Move -> RefMode(mutability)
      [] default_bm = RefMode(Shared) -> RefMode(Shared)
      [] default_bm = RefMode(Mut) -> RefMode(mutability)

\* while let Some((inner, mutability)) = expected.as_reference() { ... }
RECURSIVE peel(_, _)
peel(expected, default_bm) ==
    LET r == as_reference(expected)
    IN  IF IsSome(r)
        THEN peel(Unwrap(r)[1], peel_mode(default_bm, Unwrap(r)[2]))
        ELSE [expected |-> expected, default_bm |-> default_bm]

\* (mutant: a reference pattern keeps the default binding mode it was given)
resolve_default_bm_no_reset(p, expected, default_bm) ==
    IF is_non_ref_pat(p) THEN peel(expected, default_bm)
    ELSE [expected |-> expected, default_bm |-> default_bm]

resolve_default_bm(p, expected, default_bm) ==
    IF is_non_ref_pat(p) THEN peel(expected, default_bm)
    ELSE IF p.kind = "Ref" THEN [expected |-> expected, default_bm |-> Move]
    ELSE [expected |-> expected, default_bm |-> default_bm]

\* the activation of infer_pat(pat, expected, default_bm) as it reaches the match
Enter(pat, expected, default_bm) ==
    LET r == resolve_default_bm(PatAt(body, pat), expected, default_bm)
    IN  [pat |-> pat, expected |-> r.expected, default_bm |-> r.default_bm,
         rets |-> <<>>, started |-> FALSE, ty |-> Unknown, def |-> None,
         post_idx_offset |-> 0, box_adt |-> None]

Top == stack[1]
TopPat == PatAt(body, Top.pat)
Running(kind) == phase = "running" /\ TopPat.kind = kind

(***************************************************************************)
(* The steps every arm of the match ends with.                             *)
(***************************************************************************)
\* the activation f, updated to f2, calls infer_pat(pat, expected, default_bm)
DoCall(f2, pat, expected, default_bm, tv, fres, vres) ==
    LET callee == Enter(pat, expected, default_bm)
    IN  /\ stack' = <<callee, f2>> \o Tail(stack)
        /\ calls' = (pat :> [expected_arg |-> expected, default_bm_arg |-> default_bm,
                             expected |-> callee.expected,
                             default_bm |-> callee.default_bm]) @@ calls
        /\ type_vars' = tv
        /\ record_pat_field_resolutions' = fres
        /\ variant_resolutions' = vres
        /\ UNCHANGED <<env, phase, type_of_pat, write_log, returns>>

\* the activation on top returns ty to its caller
Return(ty) ==
    LET rest == Tail(stack)
    IN  /\ stack' = IF rest = <<>> THEN <<>>
                    ELSE <<[rest[1] EXCEPT !.rets = Append(@, ty)]>> \o Tail(rest)
        /\ phase' = IF rest = <<>> THEN "done" ELSE phase

\* write_pat_ty
write_pat_ty(pat, ty) ==
    /\ type_of_pat' = (pat :> ty) @@ type_of_pat
    /\ write_log' = Append(write_log, pat)

\* the type the computed type is unified against at the end of infer_pat
\* (mutant: the expected type as the caller passed it)
finalize_expected_as_passed(f) == calls[f.pat].expected_arg

finalize_expected(f) == f.expected

\* infer_pat, lines 248-255
DoFinalize(f, ty, tv, vres) ==
    LET v == insert_type_vars_shallow(tv, ty)
        u == unify(v.tv, v.ty, finalize_expected(f))
        final == resolve_ty_as_possible(u.tv, v.ty)
    IN  /\ type_vars' = u.tv
        /\ write_pat_ty(f.pat, final)
        /\ returns' = (f.pat :> [computed |-> ty, unified |-> Some(finalize_expected(f)),
                                 unify_ok |-> u.ok, returned |-> final]) @@ returns
        /\ Return(final)
        /\ variant_resolutions' = vres
        /\ UNCHANGED <<env, calls, record_pat_field_resolutions>>

\* a panic unwinds the whole inference; tv and vres are what was written before
DoPanic(tv, vres) ==
    /\ phase' = "panicked"
    /\ type_vars' = tv
    /\ variant_resolutions' = vres
    /\ UNCHANGED <<env, stack, type_of_pat, write_log, record_pat_field_resolutions,
                   calls, returns>>

(***************************************************************************)
(* Pat::Tuple, lines 122-142.                                              *)
(***************************************************************************)
Max(a, b) == IF a >= b THEN a ELSE b
\* the index the rest marker splits the sub-patterns at (all of them are
\* before it when there is none)
SplitAt(args, ellipsis) == IF IsSome(ellipsis) THEN Unwrap(ellipsis) ELSE Len(args)

tuple_expectations(expected) ==
    IF IsSome(as_tuple(expected)) THEN Unwrap(as_tuple(expected)) ELSE <<>>
\* expectations.iter().chain(repeat(&Ty::Unknown)), j-th item (from 1)
nth_expectation(expectations, j) ==
    IF j <= Len(expectations) THEN expectations[j] ELSE Unknown
n_uncovered_patterns(p, expected) ==
    Max(0, Len(tuple_expectations(expected)) - Len(p.args))

\* what the c-th sub-pattern (from 1) is inferred against
tuple_expectation_of(p, expected, c) ==
    IF c <= SplitAt(p.args, p.ellipsis)
    THEN nth_expectation(tuple_expectations(expected), c)
    ELSE nth_expectation(tuple_expectations(expected), c + n_uncovered_patterns(p, expected))

\* (mutant: the uncovered expectations in the middle are dropped)
tuple_inner_tys_dropping_middle(p, expected, rets) == rets

\* inner_tys once every sub-pattern is inferred; rets are their types
tuple_inner_tys(p, expected, rets) ==
    LET i == SplitAt(p.args, p.ellipsis)
    IN  SubSeq(rets, 1, i)
        \o [j \in 1..n_uncovered_patterns(p, expected) |->
               nth_expectation(tuple_expectations(expected), i + j)]
        \o SubSeq(rets, i + 1, Len(p.args))

PatTupleArm ==
    /\ Running("Tuple")
    /\ LET f == Top
           p == TopPat
           c == Len(f.rets) + 1
       IN  IF c <= Len(p.args)
           THEN DoCall(f, Append(f.pat, c), tuple_expectation_of(p, f.expected, c),
                       f.default_bm, type_vars, record_pat_field_resolutions,
                       variant_resolutions)
           ELSE DoFinalize(f, Tuple(tuple_inner_tys(p, f.expected, f.rets)), type_vars,
                           variant_resolutions)

(***************************************************************************)
(* Pat::Or, lines 143-153.                                                 *)
(***************************************************************************)
\* (mutant: the last alternative gives the type)
or_ty_last(rets) == IF rets # <<>> THEN rets[Len(rets)] ELSE Unknown

or_ty(rets) == IF rets # <<>> THEN rets[1] ELSE Unknown

PatOrArm ==
    /\ Running("Or")
    /\ LET f == Top
           p == TopPat
           c == Len(f.rets) + 1
       IN  IF c <= Len(p.args)
           THEN DoCall(f, Append(f.pat, c), f.expected, f.default_bm, type_vars,
                       record_pat_field_resolutions, variant_resolutions)
           ELSE DoFinalize(f, or_ty(f.rets), type_vars, variant_resolutions)

(***************************************************************************)
(* Pat::Ref, lines 154-166.                                                *)
(***************************************************************************)
ref_expectation(expected) ==
    IF IsSome(as_reference(expected)) THEN Unwrap(as_reference(expected))[1] ELSE Unknown

PatRefArm ==
    /\ Running("Ref")
    /\ LET f == Top
           p == TopPat
       IN  IF f.rets = <<>>
           THEN DoCall(f, Append(f.pat, 1), ref_expectation(f.expected), f.default_bm,
                       type_vars, record_pat_field_resolutions, variant_resolutions)
           ELSE DoFinalize(f, Ref(p.mutability, f.rets[1]), type_vars,
                           variant_resolutions)

(***************************************************************************)
(* Pat::TupleStruct, lines 167-174, and infer_tuple_struct_pat, lines      *)
(* 19-56.                                                                  *)
(***************************************************************************)
\* a - b on usize.  A usize x that wrapped below zero stands for 2^64 + x
\* and is kept as the negative number x: it is no index of any field.
usize_sub(a, b) == [overflow |-> b > a, value |-> a - b]

\* lines 28-42: up to the loop over the sub-patterns
tuple_struct_start(f, p, tv, vres) ==
    LET rv == resolve_variant(tv, p.path)
        u == unify(rv.tv, rv.ty, f.expected)
        n_fields == IF IsSome(rv.def) THEN Len(Fields(Unwrap(rv.def))) ELSE 0
        n_post == Len(p.args) - SplitAt(p.args, p.ellipsis)
        d == usize_sub(n_fields, n_post)
    IN  [panic |-> d.overflow /\ overflow_checks,
         f |-> [f EXCEPT !.started = TRUE, !.ty = rv.ty, !.def = rv.def,
                         !.post_idx_offset = d.value],
         tv |-> u.tv,
         vres |-> IF IsSome(rv.def) THEN (f.pat :> Unwrap(rv.def)) @@ vres ELSE vres]

\* the field index i of the loop for the c-th sub-pattern (from 1)
tuple_struct_index(f, p, c) ==
    LET n_pre == SplitAt(p.args, p.ellipsis)
    IN  IF c <= n_pre THEN c - 1 ELSE f.post_idx_offset + (c - n_pre - 1)

\* lines 47-50: the declared type of the field a name finds, substituted
field_expectation(f, name) ==
    IF IsSome(f.def) /\ IsSome(field(Unwrap(f.def), name))
    THEN subst(field_types(Unwrap(f.def), Unwrap(field(Unwrap(f.def), name))),
               substs_of(f.ty))
    ELSE Unknown

PatTupleStructArm ==
    /\ Running("TupleStruct")
    /\ LET p == TopPat
           st == IF Top.started
                 THEN [panic |-> FALSE, f |-> Top, tv |-> type_vars,
                       vres |-> variant_resolutions]
                 ELSE tuple_struct_start(Top, p, type_vars, variant_resolutions)
           c == Len(st.f.rets) + 1
       IN  IF st.panic THEN DoPanic(st.tv, st.vres)
           ELSE IF c <= Len(p.args)
           THEN LET e == normalize_associated_types_in(
                             st.tv,
                             field_expectation(st.f,
                                 new_tuple_field(tuple_struct_index(st.f, p, c))))
                IN  DoCall(st.f, Append(st.f.pat, c), e.ty, st.f.default_bm, e.tv,
                           record_pat_field_resolutions, st.vres)
           ELSE DoFinalize(st.f, st.f.ty, st.tv, st.vres)

(***************************************************************************)
(* Pat::Record, lines 175-177, and infer_record_pat, lines 58-91.          *)
(***************************************************************************)
\* lines 66-76: up to the loop over the fields
record_start(f, p, tv, vres) ==
    LET rv == resolve_variant(tv, p.path)
        u == unify(rv.tv, rv.ty, f.expected)
    IN  [f |-> [f EXCEPT !.started = TRUE, !.ty = rv.ty, !.def = rv.def],
         tv |-> u.tv,
         vres |-> IF IsSome(rv.def) THEN (f.pat :> Unwrap(rv.def)) @@ vres ELSE vres]

\* var_data.as_ref().and_then(|it| it.field(&subpat.name))
matching_field(f, name) == IF IsSome(f.def) THEN field(Unwrap(f.def), name) ELSE None

\* (mutant: a field occurrence is recorded even when no field has its name)
record_field_resolution_always(f, name, subpat, fres) ==
    (subpat :> [parent |-> IF IsSome(f.def) THEN Unwrap(f.def) ELSE Nope,
                local_id |-> IF IsSome(matching_field(f, name))
                             THEN Unwrap(matching_field(f, name)) ELSE 0]) @@ fres

\* lines 79-82
record_field_resolution(f, name, subpat, fres) ==
    IF IsSome(matching_field(f, name))
    THEN (subpat :> [parent |-> Unwrap(f.def),
                     local_id |-> Unwrap(matching_field(f, name))]) @@ fres
    ELSE fres

PatRecordArm ==
    /\ Running("Record")
    /\ LET p == TopPat
           st == IF Top.started
                 THEN [f |-> Top, tv |-> type_vars, vres |-> variant_resolutions]
                 ELSE record_start(Top, p, type_vars, variant_resolutions)
           c == Len(st.f.rets) + 1
       IN  IF c <= Len(p.fields)
           THEN LET name == p.fields[c].name
                    subpat == Append(st.f.pat, c)
                    e == normalize_associated_types_in(st.tv, field_expectation(st.f, name))
                IN  DoCall(st.f, subpat, e.ty, st.f.default_bm, e.tv,
                           record_field_resolution(st.f, name, subpat,
                                                   record_pat_field_resolutions),
                           st.vres)
           ELSE DoFinalize(st.f, st.f.ty, st.tv, st.vres)

(***************************************************************************)
(* Pat::Path, lines 178-182.  infer_path gives Some type or None.          *)
(***************************************************************************)
InferPathResults == {None, Some(Scalar(7))}

PatPathArm ==
    /\ Running("Path")
    /\ \E r \in InferPathResults :
          DoFinalize(Top, IF IsSome(r) THEN Unwrap(r) ELSE Unknown, type_vars,
                     variant_resolutions)

(***************************************************************************)
(* Pat::Bind, lines 183-205.                                               *)
(***************************************************************************)
bind_mode(p, default_bm) ==
    IF p.mode = "Unannotated" THEN default_bm ELSE convert(p.mode)

\* (mutant: the binding is by reference whatever the mode)
bound_ty_always_ref(mode, inner_ty) ==
    Ref(IF mode.bm = "Ref" THEN mode.m ELSE Shared, inner_ty)

\* lines 196-201
bound_ty(mode, inner_ty) ==
    IF mode.bm = "Ref" THEN Ref(mode.m, inner_ty) ELSE inner_ty

PatBindArm ==
    /\ Running("Bind")
    /\ LET f == Top
           p == TopPat
       IN  IF IsSome(p.subpat) /\ f.rets = <<>>
           THEN DoCall(f, Append(f.pat, 1), f.expected, f.default_bm, type_vars,
                       record_pat_field_resolutions, variant_resolutions)
           ELSE LET inner == IF IsSome(p.subpat) THEN f.rets[1] ELSE f.expected
                    v == insert_type_vars_shallow(type_vars, inner)
                    bound == resolve_ty_as_possible(
                                 v.tv, bound_ty(bind_mode(p, f.default_bm), v.ty))
                IN  /\ type_vars' = v.tv
                    /\ write_pat_ty(f.pat, bound)
                    /\ returns' = (f.pat :> [computed |-> inner, unified |-> None,
                                             unify_ok |-> TRUE, returned |-> v.ty])
                                  @@ returns
                    /\ Return(v.ty)
                    /\ UNCHANGED <<env, calls, record_pat_field_resolutions,
                                   variant_resolutions>>

(***************************************************************************)
(* Pat::Slice, lines 206-223.                                              *)
(***************************************************************************)
slice_elem_ty(expected) ==
    IF expected.k \in {"Array", "Slice"} THEN expected.args[1] ELSE Unknown
slice_pat_ty(expected) ==
    IF expected.k = "Array" THEN Array(slice_elem_ty(expected))
    ELSE Slice(slice_elem_ty(expected))

PatSliceArm ==
    /\ Running("Slice")
    /\ LET f == Top
           p == TopPat
           n_pre == Len(p.prefix)
           n_mid == Len(p.slice)
           n_suf == Len(p.suffix)
           c == Len(f.rets) + 1
       IN  IF c <= n_pre + n_suf
           THEN \* for pat_id in prefix.iter().chain(suffix)
                DoCall(f, Append(f.pat, IF c <= n_pre THEN c ELSE c + n_mid),
                       slice_elem_ty(f.expected), f.default_bm, type_vars,
                       record_pat_field_resolutions, variant_resolutions)
           ELSE IF c <= n_pre + n_suf + n_mid
           THEN DoCall(f, Append(f.pat, n_pre + 1), slice_pat_ty(f.expected),
                       f.default_bm, type_vars, record_pat_field_resolutions,
                       variant_resolutions)
           ELSE DoFinalize(f, slice_pat_ty(f.expected), type_vars, variant_resolutions)

(***************************************************************************)
(* Pat::Wild, Pat::Range, Pat::Lit, Pat::ConstBlock, Pat::Missing.         *)
(***************************************************************************)
PatWildArm ==
    /\ Running("Wild")
    /\ DoFinalize(Top, Top.expected, type_vars, variant_resolutions)

PatRangeArm ==
    /\ Running("Range")
    /\ LET start_ty == infer_expr(type_vars, TopPat.start, Top.expected)
           end_ty == infer_expr(start_ty.tv, TopPat.end, start_ty.ty)
       IN  DoFinalize(Top, end_ty.ty, end_ty.tv, variant_resolutions)

PatLitArm ==
    /\ Running("Lit")
    /\ LET r == infer_expr(type_vars, TopPat.expr, Top.expected)
       IN  DoFinalize(Top, r.ty, r.tv, variant_resolutions)

PatConstBlockArm ==
    /\ Running("ConstBlock")
    /\ LET r == infer_expr(type_vars, TopPat.expr, Top.expected)
       IN  DoFinalize(Top, r.ty, r.tv, variant_resolutions)

PatMissingArm ==
    /\ Running("Missing")
    /\ DoFinalize(Top, Unknown, type_vars, variant_resolutions)

(***************************************************************************)
(* Pat::Box, lines 231-242.                                                *)
(***************************************************************************)
box_inner_expected(expected, box_adt) ==
    IF IsSome(as_adt(expected)) /\ Unwrap(as_adt(expected))[1] = box_adt
    THEN Unwrap(as_adt(expected))[2][1]
    ELSE Unknown

PatBoxArm ==
    /\ Running("Box")
    /\ LET f == Top
       IN  IF f.rets = <<>>
           THEN IF IsSome(boxed_box)
                THEN DoCall([f EXCEPT !.box_adt = boxed_box], Append(f.pat, 1),
                            box_inner_expected(f.expected, Unwrap(boxed_box)),
                            f.default_bm, type_vars, record_pat_field_resolutions,
                            variant_resolutions)
                ELSE DoFinalize(f, Unknown, type_vars, variant_resolutions)
           ELSE DoFinalize(f, Adt(Unwrap(f.box_adt), <<f.rets[1]>>), type_vars,
                           variant_resolutions)

(***************************************************************************)
(* The bodies and the expected types inference is run on.                  *)
(***************************************************************************)
SeqsUpTo(S, n) == UNION {[1..k -> S] : k \in 0..n}
Ellipses(args) == {None} \cup {Some(i) : i \in 0..Len(args)}

BindU == PatBind("Unannotated", None)
LeafPats ==
    {PatMissing, PatWild, PatLit(IntLiteral), PatLit(StringLiteral), PatPath(Nope),
     PatRange(IntLiteral, IntLiteral), PatConstBlock(BlockExpr)}
    \cup {PatBind(m, None) : m \in BindingAnnotations}
TuplePats ==
    UNION {{PatTuple(a, e) : e \in Ellipses(a)} : a \in SeqsUpTo({PatWild, BindU}, MaxArgs)}
VariantPaths == {None, Some(Nope), Some(Gen)} \cup {Some(TS(n)) : n \in 0..MaxFields}
TupleStructPats ==
    UNION {{PatTupleStruct(path, a, e) : path \in VariantPaths, e \in Ellipses(a)} :
           a \in SeqsUpTo({BindU}, MaxArgs)}
FieldNames == {Name("a"), Name("b"), Name("zz")}
RecordPats ==
    {PatRecord(path, fs) :
        path \in {None, Some(Nope), Some(Rec), Some(Gen)},
        fs \in SeqsUpTo({RecordFieldPat(n, BindU) : n \in FieldNames}, MaxArgs - 1)}
OrPats ==
    {PatOr(a) : a \in SeqsUpTo({BindU, PatMissing, PatLit(IntLiteral),
                                PatLit(StringLiteral)}, MaxArgs)}
RefPats ==
    {PatRef(p, m) : p \in LeafPats \cup {PatTuple(<<BindU, BindU>>, None)},
                    m \in Mutability}
BoxPats ==
    {PatBox(p) : p \in {PatWild, BindU, PatBind("Ref", None), PatLit(IntLiteral)}}
BindSubPats ==
    {PatBind(m, Some(p)) :
        m \in BindingAnnotations,
        p \in {PatWild, PatLit(IntLiteral), PatTuple(<<BindU, PatWild>>, None),
               PatRef(BindU, Shared)}}
SlicePats ==
    {PatSlice(pre, mid, suf) :
        pre \in SeqsUpTo({BindU}, MaxArgs - 1),
        mid \in {None, Some(BindU), Some(PatWild)},
        suf \in SeqsUpTo({BindU}, MaxArgs - 1)}
NestedPats ==
    {PatTuple(<<PatWild, PatRef(BindU, m)>>, None) : m \in Mutability}
    \cup {PatTuple(<<PatRef(BindU, Shared)>>, Some(1)),
          PatOr(<<PatTuple(<<BindU>>, None), PatTuple(<<PatWild, BindU>>, Some(1))>>),
          PatOr(<<PatTupleStruct(Some(TS(1)), <<BindU>>, None), PatMissing>>),
          PatTuple(<<PatTupleStruct(Some(TS(1)), <<BindU, BindU>>, Some(0)), BindU>>, None),
          PatBox(PatTuple(<<BindU>>, None)),
          PatRef(PatRef(BindU, Mut), Shared),
          PatRecord(Some(Rec), <<RecordFieldPat(Name("b"), PatRef(BindU, Shared))>>)}

\* a pattern inside a tuple pattern: matched against a reference to a tuple, the
\* tuple pattern hands its sub-pattern a by-reference default binding mode
InnerPats ==
    {BindU, PatBind("Ref", None), PatBind("RefMut", None), PatBind("Mutable", None),
     PatWild, PatLit(IntLiteral), PatRef(BindU, Shared), PatRef(BindU, Mut),
     PatTuple(<<BindU>>, None),
     PatOr(<<PatLit(IntLiteral), PatPath(Nope)>>),
     PatOr(<<BindU, PatLit(IntLiteral)>>),
     PatBind("Unannotated", Some(PatTuple(<<BindU>>, None))),
     PatBind("Ref", Some(PatWild)),
     PatBox(BindU),
     PatSlice(<<BindU>>, Some(BindU), <<>>)}
WrappedPats == {PatTuple(<<p>>, None) : p \in InnerPats}

Bodies ==
    LeafPats \cup TuplePats \cup TupleStructPats \cup RecordPats \cup OrPats
    \cup RefPats \cup BoxPats \cup BindSubPats \cup SlicePats \cup NestedPats
    \cup WrappedPats

\* S, and the types of S behind up to d reference layers
RECURSIVE RefWrap(_, _)
RefWrap(S, d) ==
    IF d = 0 THEN S
    ELSE S \cup {Ref(m, t) : m \in Mutability, t \in RefWrap(S, d - 1)}

\* the table holds an unbound variable and one bound to the integer type
InitTypeVars == <<Unbound, IntTy>>
CommonTys == {Unknown, IntTy, TyVar(1), TyVar(2)}
TupleTys ==
    {Tuple([j \in 1..n |-> Scalar(20 + j)]) : n \in 0..MaxFields}
    \cup {Tuple(<<TyVar(1), Ref(Shared, IntTy)>>)}
AdtTyOf(path) ==
    IF path = None \/ Unwrap(path).name = "Nope" THEN Adt("Rec", <<>>)
    ELSE IF Unwrap(path).name = "Gen" THEN Adt("Gen", <<Scalar(30)>>)
    ELSE Ty("Adt", Unwrap(path).name, Unwrap(path).n, <<>>)

InnerTys ==
    RefWrap({IntTy, TyVar(1), Tuple(<<Scalar(21)>>), Adt("Box", <<Scalar(5)>>),
             Slice(Scalar(6))}, MaxRefs)
WrappedTys == RefWrap({Tuple(<<e>>) : e \in InnerTys}, MaxRefs)

Expectations(p) ==
    CASE p.kind = "Tuple" ->
             IF p \in WrappedPats
             THEN WrappedTys \cup IF p \in TuplePats THEN RefWrap(TupleTys, MaxRefs) ELSE {}
             ELSE RefWrap(TupleTys, MaxRefs) \cup CommonTys
      [] p.kind \in {"TupleStruct", "Record"} ->
             RefWrap({AdtTyOf(p.path)}, MaxRefs) \cup CommonTys \cup {Adt("Other", <<>>)}
      [] p.kind = "Or" -> RefWrap({IntTy, StrTy, Tuple(<<Scalar(21), Scalar(22)>>)}, MaxRefs)
                          \cup CommonTys
      [] p.kind = "Box" ->
             RefWrap({Adt("Box", <<Scalar(5)>>), Adt("Box", <<Tuple(<<TyVar(2)>>)>>)}, MaxRefs)
             \cup CommonTys \cup {Adt("Vec", <<Scalar(5)>>)}
      [] p.kind = "Slice" ->
             RefWrap({Slice(Scalar(6)), Array(Scalar(6))}, MaxRefs)
             \cup CommonTys \cup {Slice(TyVar(2))}
      [] OTHER -> RefWrap({IntTy, StrTy, TyVar(1), TyVar(2),
                           Tuple(<<Scalar(21), TyVar(2)>>)}, MaxRefs) \cup {Unknown}

HasKind(root, kind) == \E q \in PatIds(root) : PatAt(root, q).kind = kind

(***************************************************************************)
(* The specification.                                                      *)
(***************************************************************************)
Init ==
    /\ body \in Bodies
    /\ overflow_checks \in IF HasKind(body, "TupleStruct") THEN BOOLEAN ELSE {TRUE}
    /\ boxed_box \in IF HasKind(body, "Box") THEN {None, Some("Box")} ELSE {Some("Box")}
    /\ phase = "idle"
    /\ stack = <<>>
    /\ type_vars = InitTypeVars
    /\ type_of_pat = <<>>
    /\ write_log = <<>>
    /\ record_pat_field_resolutions = <<>>
    /\ variant_resolutions = <<>>
    /\ calls = <<>>
    /\ returns = <<>>

\* the caller infers the top-level pattern: infer_pat(pat, &ty, BindingMode::default())
InferPat ==
    /\ phase = "idle"
    /\ \E expected \in Expectations(body), default_bm \in {Move} :
          LET callee == Enter(<<>>, expected, default_bm)
          IN  /\ stack' = <<callee>>
              /\ calls' = (<<>> :> [expected_arg |-> expected,
                                    default_bm_arg |-> default_bm,
                                    expected |-> callee.expected,
                                    default_bm |-> callee.default_bm]) @@ calls
    /\ phase' = "running"
    /\ UNCHANGED <<env, type_vars, type_of_pat, write_log,
                   record_pat_field_resolutions, variant_resolutions, returns>>

Next ==
    \/ InferPat
    \/ PatTupleArm
    \/ PatOrArm
    \/ PatRefArm
    \/ PatTupleStructArm
    \/ PatRecordArm
    \/ PatPathArm
    \/ PatBindArm
    \/ PatSliceArm
    \/ PatWildArm
    \/ PatRangeArm
    \/ PatLitArm
    \/ PatBoxArm
    \/ PatConstBlockArm
    \/ PatMissingArm

Spec == Init /\ [][Next]_vars

(***************************************************************************)
(* Properties.                                                             *)
(***************************************************************************)
Called(q) == q \in DOMAIN calls
Returned(q) == q \in DOMAIN returns
Recorded(q) == q \in DOMAIN type_of_pat
KindOf(q) == PatAt(body, q).kind
Count(log, q) == Cardinality({i \in 1..Len(log) : log[i] = q})
\* infer_pat(q, ..) has just returned: the table is the one it returned with
JustReturned(q) == write_log # <<>> /\ write_log[Len(write_log)] = q
Finished == phase \in {"done", "panicked"}
\* ty without the reference layers around it, and their number
RECURSIVE StripRefs(_)
StripRefs(ty) == IF ty.k = "Ref" THEN StripRefs(ty.args[1]) ELSE ty
RECURSIVE RefDepth(_)
RefDepth(ty) == IF ty.k = "Ref" THEN 1 + RefDepth(ty.args[1]) ELSE 0

\* C1: infer_pat never aborts: whatever fails to resolve or match, inference
\* of the pattern never panics.
C1_NeverAborts == phase # "panicked"

\* C2: when infer_pat on the top-level pattern completes, every PatId reachable
\* from it has exactly one recorded type.
C2_EveryPatRecordedOnce ==
    phase = "done" =>
        \A q \in PatIds(body) : Recorded(q) /\ Count(write_log, q) = 1

\* C3: for a non-reference pattern every reference layer peeled off the
\* expected type updates the default binding mode by the table, and peeling
\* goes on until the expected type is no reference.
C3_TableRows ==
    { <<Move, Shared, RefMode(Shared)>>,            <<Move, Mut, RefMode(Mut)>>,
      <<RefMode(Shared), Shared, RefMode(Shared)>>, <<RefMode(Shared), Mut, RefMode(Shared)>>,
      <<RefMode(Mut), Shared, RefMode(Shared)>>,    <<RefMode(Mut), Mut, RefMode(Mut)>> }
C3_Row(mode, peeled) == (CHOOSE r \in C3_TableRows : r[1] = mode /\ r[2] = peeled)[3]
RECURSIVE C3_ModeAfterPeeling(_, _)
C3_ModeAfterPeeling(mode, ty) ==
    IF ty.k = "Ref" THEN C3_ModeAfterPeeling(C3_Row(mode, ty.m), ty.args[1]) ELSE mode
C3_BindingModeTable ==
    \A q \in DOMAIN calls :
        is_non_ref_pat(PatAt(body, q)) =>
            /\ calls[q].default_bm =
                   C3_ModeAfterPeeling(calls[q].default_bm_arg, calls[q].expected_arg)
            /\ calls[q].expected = StripRefs(calls[q].expected_arg)
            /\ calls[q].expected.k # "Ref"
C3_Witness ==
    \E q \in DOMAIN calls :
        /\ is_non_ref_pat(PatAt(body, q))
        /\ calls[q].default_bm_arg = RefMode(Mut)
        /\ RefDepth(calls[q].expected_arg) = 2
        /\ calls[q].expected_arg.m = Mut
        /\ calls[q].expected_arg.args[1].m = Shared
        /\ calls[q].default_bm = RefMode(Shared)

\* C4: arity preservation.  A tuple pattern of k sub-patterns with a rest marker
\* at i, against an expected tuple of n >= k elements, computes a tuple type of
\* length n: i slots from the prefix sub-patterns, the n - k uncovered
\* expectations unchanged, k - i slots from the suffix sub-patterns, which are
\* matched against the trailing k - i expectations.
C4_ArityPreserved ==
    \A q \in DOMAIN returns :
        LET p == PatAt(body, q)
            e == calls[q].expected
        IN  (p.kind = "Tuple" /\ IsSome(p.ellipsis) /\ e.k = "Tuple"
             /\ Len(e.args) >= Len(p.args)) =>
                LET k == Len(p.args)
                    i == Unwrap(p.ellipsis)
                    n == Len(e.args)
                    t == returns[q].computed
                IN  /\ t.k = "Tuple" /\ t.n = n /\ Len(t.args) = n
                    /\ \A j \in 1..i :
                          /\ t.args[j] = returns[Append(q, j)].returned
                          /\ calls[Append(q, j)].expected_arg = e.args[j]
                    /\ \A j \in (i + 1)..(i + n - k) : t.args[j] = e.args[j]
                    /\ \A c \in (i + 1)..k :
                          /\ t.args[c + n - k] = returns[Append(q, c)].returned
                          /\ calls[Append(q, c)].expected_arg = e.args[c + n - k]
C4_Witness ==
    \E q \in DOMAIN returns :
        /\ KindOf(q) = "Tuple"
        /\ PatAt(body, q).ellipsis = Some(1)
        /\ Len(PatAt(body, q).args) = 2
        /\ calls[q].expected = Tuple(<<Scalar(21), Scalar(22), Scalar(23)>>)
        /\ returns[q].computed.args[2] = Scalar(22)

\* C5: rest alignment in tuple-struct patterns.  Against a resolved variant of F
\* fields, the j-th of the s sub-patterns after the rest marker is inferred
\* against the declared type of field F - s + j, those before it against the
\* fields 0, 1, ... (field i of TS(F) is declared Scalar(i)).
C5_RestAlignment ==
    Finished =>
        \A q \in DOMAIN calls :
            LET p == PatAt(body, q)
            IN  (p.kind = "TupleStruct" /\ IsSome(p.ellipsis) /\ IsSome(p.path)
                 /\ Unwrap(p.path).name = "TS") =>
                    LET F == Unwrap(p.path).n
                        i == Unwrap(p.ellipsis)
                        s == Len(p.args) - i
                    IN  \A c \in 1..Len(p.args) :
                            LET idx == IF c <= i THEN c - 1 ELSE F - s + (c - i - 1)
                            IN  (0 <= idx /\ idx < F) =>
                                    /\ Called(Append(q, c))
                                    /\ calls[Append(q, c)].expected_arg = Scalar(idx)

C7_ErgonomicsReset ==
    \A q \in DOMAIN calls :
        KindOf(q) = "Ref" =>
            LET sub == Append(q, 1)
                arg == calls[q].expected_arg
            IN  /\ calls[q].expected = arg
                /\ calls[q].default_bm = Move
                /\ Called(sub) =>
                      /\ calls[sub].default_bm_arg = Move
                      /\ calls[sub].expected_arg =
                             IF arg.k = "Ref" THEN arg.args[1] ELSE Unknown
                /\ (PatAt(body, sub) = BindU /\ JustReturned(sub)) =>
                      type_of_pat[sub] =
                          resolve_ty_as_possible(type_vars, returns[sub].returned)
C7_Witness ==
    \E q \in DOMAIN calls :
        /\ KindOf(q) = "Ref"
        /\ calls[q].default_bm_arg = RefMode(Shared)
        /\ calls[q].expected_arg = Ref(Mut, IntTy)
        /\ PatAt(body, Append(q, 1)) = BindU
        /\ JustReturned(Append(q, 1))
        /\ type_of_pat[Append(q, 1)] = IntTy

\* C8: the type of an Or pattern is the type inferred for its first alternative;
\* every alternative is inferred against the Or pattern's expected type and
\* binding mode and gets a recorded type of its own.
C8_OrFirstAlternative ==
    \A q \in DOMAIN returns :
        (KindOf(q) = "Or" /\ PatAt(body, q).args # <<>>) =>
            /\ returns[q].computed = returns[Append(q, 1)].returned
            /\ JustReturned(q) =>
                   returns[q].returned =
                       resolve_ty_as_possible(type_vars, returns[Append(q, 1)].returned)
            /\ \A c \in 1..Len(PatAt(body, q).args) :
                  /\ Called(Append(q, c)) /\ Returned(Append(q, c))
                  /\ calls[Append(q, c)].expected_arg = calls[q].expected
                  /\ calls[Append(q, c)].default_bm_arg = calls[q].default_bm
                  /\ Recorded(Append(q, c))
                  /\ Count(write_log, Append(q, c)) = 1
C8_Witness ==
    \E q \in DOMAIN returns :
        /\ KindOf(q) = "Or"
        /\ PatAt(body, q).args = <<PatMissing, PatLit(StringLiteral)>>
        /\ calls[q].expected_arg = Unknown
        /\ returns[q].computed = returns[Append(q, 1)].returned
        /\ returns[q].computed.k = "Var"
        /\ type_of_pat[Append(q, 2)] = Ref(Shared, StrTy)

\* C9 as stated: the finalization of a non-binding pattern unifies the computed
\* type against the expected type as the caller passed it, and records and
\* returns the type whether or not that succeeds.
C9_UnifiedAgainstPassedExpected ==
    \A q \in DOMAIN returns :
        KindOf(q) # "Bind" =>
            /\ returns[q].unified = Some(calls[q].expected_arg)
            /\ Recorded(q) /\ type_of_pat[q] = returns[q].returned

\* C9 as amended: the finalization unifies against the expected type as the
\* default binding mode resolution left it: for a non-reference pattern the
\* passed type without its outer reference layers, for any other pattern the
\* passed type; the type is recorded and returned whether or not that succeeds.
C9_UnifiedAgainstPeeledExpected ==
    \A q \in DOMAIN returns :
        KindOf(q) # "Bind" =>
            /\ returns[q].unified =
                   Some(IF is_non_ref_pat(PatAt(body, q))
                        THEN StripRefs(calls[q].expected_arg)
                        ELSE calls[q].expected_arg)
            /\ Recorded(q) /\ type_of_pat[q] = returns[q].returned
C9_Witness ==
    \E q \in DOMAIN returns :
        /\ KindOf(q) = "Lit"
        /\ calls[q].expected_arg = Ref(Shared, StrTy)
        /\ returns[q].unified = Some(StrTy)
        /\ ~returns[q].unify_ok
        /\ type_of_pat[q] = IntTy
        /\ returns[q].returned = IntTy

\* C10: a binding's effective mode is its annotation, or the default binding
\* mode when it has none.  The type recorded for it is the inner type when the
\* mode is by value and a reference of the mode's mutability to the inner type
\* when it is by reference; the value returned is the inner type; the binding
\* does not go through the finalization.
C10_Mode(q) ==
    LET a == PatAt(body, q).mode
    IN  CASE a = "Unannotated" -> calls[q].default_bm_arg
          [] a = "Mutable" -> Move
          [] a = "Ref" -> RefMode(Shared)
          [] a = "RefMut" -> RefMode(Mut)
C10_Binding ==
    \A q \in DOMAIN returns :
        KindOf(q) = "Bind" =>
            LET inner == returns[q].returned
                given == IF IsSome(PatAt(body, q).subpat)
                         THEN returns[Append(q, 1)].returned
                         ELSE calls[q].expected_arg
            IN  /\ returns[q].unified = None
                /\ given.k # "Unknown" => inner = given
                /\ given.k = "Unknown" => inner.k = "Var"
                /\ JustReturned(q) =>
                       type_of_pat[q] =
                           resolve_ty_as_possible(
                               type_vars,
                               IF C10_Mode(q) = Move THEN inner
                               ELSE Ref(C10_Mode(q).m, inner))
C10_Witness ==
    \E q \in DOMAIN returns :
        /\ PatAt(body, q) = BindU
        /\ calls[q].default_bm_arg = RefMode(Mut)
        /\ calls[q].expected_arg = TyVar(2)
        /\ JustReturned(q)
        /\ returns[q].returned = TyVar(2)
        /\ type_of_pat[q] = Ref(Mut, IntTy)

====
